---- MODULE Spec2Model ----
(***************************************************************************)
(* Model of pre-commit-action/run_checks.py (src/run_checks.py): the       *)
(* checks runner that acquires four artifacts, patches two of them, runs   *)
(* pre-commit and cleans up.                                               *)
(*                                                                         *)
(* Text is a sequence of chunks (strings); a chunk stands for the exact    *)
(* run of characters it spells, and "$" is a chunk of its own.  A path is  *)
(* the sequence of its parts, as                                           *)
(* pathlib.Path.parts.  The filesystem is a record                         *)
(*   [files : path -> text,  dirs : set of paths].                         *)
(***************************************************************************)
EXTENDS Integers, Sequences, FiniteSets, TLC

VARIABLES
    args,                \* argparse namespace after lines 170-178
    fs,                  \* the filesystem: [files, dirs]
    pre,                 \* fs when the run started (history)
    cleanup_list,        \* main: cleanup_list
    config_path,         \* main: config_path
    config_is_temp,      \* main: config_is_temp
    hook_existed_in_cwd, \* main: hook_existed_in_cwd
    result,              \* main: result.returncode
    pc,                  \* position of main()
    exit_code,           \* process exit status, -1 while running
    outcome,             \* per artifact: how it was resolved (history)
    events,              \* log of tool / cleanup steps (history)
    tool_config,         \* the --config path pre-commit was started with
    created,             \* paths the run's own steps created (history)
    p_in,                \* patch_hook_script harness: the arguments
    p_out,               \* patch_hook_script harness: the returned text
    p_pc                 \* patch_hook_script harness: "call" | "done" | "off"

mainvars == <<args, fs, pre, cleanup_list, config_path, config_is_temp,
              hook_existed_in_cwd, result, pc, exit_code, outcome, events,
              tool_config, created>>
patchvars == <<p_in, p_out, p_pc>>
vars == <<mainvars, patchvars>>

---------------------------------------------------------------------------
(* Bounds *)

\* longest script text given to patch_hook_script in SpecPatch
MaxLen == 4

---------------------------------------------------------------------------
(* Module constants, lines 26-36 *)

DEFAULT_COPYRIGHT == "The Contributors to Eclipse OpenSOVD (see CONTRIBUTORS)"
DEFAULT_LICENSE == "Apache-2.0"
DEFAULT_TEMPLATE == "opensovd"

\* "${REUSE_COPYRIGHT:-The Contributors to Eclipse OpenSOVD (see CONTRIBUTORS)}"
CopyrightToken ==
    <<"$", "{REUSE_COPYRIGHT:-The Contributors to Eclipse OpenSOVD (see CONTRIBUTORS)}">>
\* "${REUSE_LICENSE:-Apache-2.0}"
LicenseToken == <<"$", "{REUSE_LICENSE:-", "Apache-2.0}">>
\* "${REUSE_TEMPLATE:-opensovd}"
TemplateToken == <<"$", "{REUSE_TEMPLATE:-", "opensovd}">>

---------------------------------------------------------------------------
(* str.replace on texts *)

IsPrefix(p, s) == Len(p) <= Len(s) /\ SubSeq(s, 1, Len(p)) = p

RECURSIVE Replace(_, _, _)
\* str.replace(old, new): every non-overlapping occurrence, leftmost first
Replace(s, old, new) ==
    IF Len(s) < Len(old) THEN s
    ELSE IF IsPrefix(old, s)
         THEN new \o Replace(SubSeq(s, Len(old) + 1, Len(s)), old, new)
         ELSE <<Head(s)>> \o Replace(Tail(s), old, new)

patch_config(config_content, fix_mode) ==
    IF fix_mode
    THEN Replace(Replace(config_content,
                         <<"args: [--output-format=full]">>,
                         <<"args: [--fix, --output-format=full]">>),
                 <<"args: [--diff]">>, <<"args: []">>)
    ELSE config_content

\* faulty variant: the license and template values are exchanged
patch_hook_script_swapped(script_content, copyright_text, license_id, template) ==
    Replace(Replace(Replace(script_content, CopyrightToken, copyright_text),
                    LicenseToken, template),
            TemplateToken, license_id)

patch_hook_script(script_content, copyright_text, license_id, template) ==
    Replace(Replace(Replace(script_content, CopyrightToken, copyright_text),
                    LicenseToken, license_id),
            TemplateToken, template)

---------------------------------------------------------------------------
(* Paths and the filesystem *)

\* Python None (an argument that was not given, a skipped download)
None == <<"None">>
\* Path("") and Path("."): the working directory itself
CurDir == <<>>

\* truth value of an optional string argument
Truthy(x) == x # None /\ x # CurDir

Parent(p) == SubSeq(p, 1, Len(p) - 1)

HookCwdPath == <<"reuse-annotate-hook.sh">>
TemplatePath(template) == <<".reuse", "templates", template \o ".jinja2">>
LicensePath(license) == <<"LICENSES", license \o ".txt">>
\* the name tempfile.NamedTemporaryFile(suffix=".yml") hands out
TmpConfigPath == <<"/tmp", "tmpconfig.yml">>
\* values of --config and --hook-script naming a file outside the targets
LocalConfigPath == <<"ci", "pre-commit-config.yml">>
LocalHookPath == <<"ci", "reuse-annotate-hook.sh">>

Paths(f) == DOMAIN f.files \cup f.dirs
Exists(f, p) == p \in Paths(f)
IsFile(f, p) == p \in DOMAIN f.files

\* Path.write_text / writing an open file: create or overwrite
WriteText(f, p, text) == [f EXCEPT !.files = (p :> text) @@ f.files]

\* Path.unlink(missing_ok=True)
Unlink(f, p) ==
    [f EXCEPT !.files = [q \in (DOMAIN f.files) \ {p} |-> f.files[q]]]

IsEmptyDir(f, d) == \A q \in Paths(f) : q = CurDir \/ Parent(q) # d

\* d.rmdir() inside try/except OSError: removes d only when it is an
\* existing empty directory, otherwise leaves the filesystem alone
Rmdir(f, d) ==
    IF d \in f.dirs /\ IsEmptyDir(f, d)
    THEN [f EXCEPT !.dirs = f.dirs \ {d}]
    ELSE f

\* Path.mkdir(parents=True, exist_ok=True)
Mkdir(f, d) ==
    [f EXCEPT !.dirs = f.dirs \cup {SubSeq(d, 1, n) : n \in 1..Len(d)}]

RECURSIVE created_dirs(_, _)
\* lines 93-98: the missing ancestors of local_path, nearest first
created_dirs(check, f) ==
    IF check = CurDir THEN <<>>
    ELSE (IF Exists(f, check) THEN <<>> ELSE <<check>>)
         \o created_dirs(Parent(check), f)

\* Path ordering on the ancestors of one path: an ancestor sorts before its
\* descendants (the parts of one are a proper prefix of the other's)
PathLess(a, b) == a # b /\ IsPrefix(a, b)

RECURSIVE Insert(_, _)
Insert(x, s) ==
    IF s = <<>> THEN <<x>>
    ELSE IF PathLess(x, Head(s)) THEN <<x>> \o s
         ELSE <<Head(s)>> \o Insert(x, Tail(s))

RECURSIVE Sorted(_)
\* sorted(created_dirs)
Sorted(s) == IF s = <<>> THEN <<>> ELSE Insert(Head(s), Sorted(Tail(s)))

\* faulty variant: the directories are walked in sorted order, parents first
NotReversed(s) == s

\* reversed(cleanup_info["dirs"])
Reversed(s) == [i \in 1..Len(s) |-> s[Len(s) + 1 - i]]

---------------------------------------------------------------------------
(* download_if_missing and cleanup_downloads *)

\* what urllib.request.urlopen does for one request
NetStatus == {"ok", "http_error", "url_error"}

\* a skipped download's entry in cleanup_list
NoneInfo == [file |-> None, dirs |-> <<>>]

\* faulty variant: the existence test of lines 87-88 is missing
download_always(f, local_path, status, body) ==
    LET made == created_dirs(Parent(local_path), f)
        f1 == Mkdir(f, Parent(local_path))
    IN  CASE status = "ok" ->
               [fs |-> WriteText(f1, local_path, body),
                ret |-> [file |-> local_path, dirs |-> Sorted(made)],
                how |-> "fetched"]
          [] status = "http_error" ->
               [fs |-> f1, ret |-> NoneInfo, how |-> "http_error"]
          [] OTHER ->
               [fs |-> f1, ret |-> NoneInfo, how |-> "url_error"]

\* lines 81-112.  status is the outcome of urlopen if it is reached.
\* how = "cwd": skipped, "fetched": written, "http_error": warned and
\* skipped, "url_error": the exception leaves the function.
download_if_missing(f, local_path, status, body) ==
    IF Exists(f, local_path)
    THEN [fs |-> f, ret |-> NoneInfo, how |-> "cwd"]
    ELSE LET made == created_dirs(Parent(local_path), f)
             f1 == Mkdir(f, Parent(local_path))
         IN  CASE status = "ok" ->
                    [fs |-> WriteText(f1, local_path, body),
                     ret |-> [file |-> local_path, dirs |-> Sorted(made)],
                     how |-> "fetched"]
               [] status = "http_error" ->
                    [fs |-> f1, ret |-> NoneInfo, how |-> "http_error"]
               [] OTHER ->
                    [fs |-> f1, ret |-> NoneInfo, how |-> "url_error"]

RECURSIVE RmdirAll(_, _)
\* lines 122-126, over an already reversed list
RmdirAll(f, ds) ==
    IF ds = <<>> THEN f ELSE RmdirAll(Rmdir(f, Head(ds)), Tail(ds))

RECURSIVE cleanup_downloads(_, _)
\* lines 115-126
cleanup_downloads(f, list) ==
    IF list = <<>> THEN f
    ELSE LET info == Head(list)
         IN  IF info = NoneInfo
             THEN cleanup_downloads(f, Tail(list))
             ELSE cleanup_downloads(
                      RmdirAll(Unlink(f, info.file), Reversed(info.dirs)),
                      Tail(list))

---------------------------------------------------------------------------
(* Inputs: what the remote serves and what the working tree may hold *)

RemoteConfigText ==
    <<"repos:", "args: [--output-format=full]", "args: [--diff]">>
LocalConfigText == <<"repos: # local", "args: [--diff]">>
RemoteHookText ==
    <<"reuse annotate -c ">> \o CopyrightToken \o <<" -l ">> \o LicenseToken
    \o <<" -t ">> \o TemplateToken
LocalHookText == <<"# local", "reuse annotate -l ">> \o LicenseToken
\* a hook script already in the working directory: this repository's own
\* script, or an unrelated one
CwdHookTexts == {RemoteHookText, <<"#!/bin/sh", "exit 0">>}
RemoteTemplateText == <<"remote template">>
RemoteLicenseText == <<"remote license">>
CwdTemplateText == <<"own template">>
CwdLicenseText == <<"own license">>
ProjectFile == <<"README.md">>

\* exit statuses of pre-commit (a process exit status is in 0..255)
ReturnCodes == {0, 1, 3, 255}

Artifacts == {"config", "hook", "template", "license"}

\* lines 173-178: an empty string counts as unset
OrDefault(value, default) == IF value = "" THEN default ELSE value

\* a function with one optional entry
Opt(present, p, text) == IF present THEN (p :> text) ELSE (ProjectFile :> <<"# project">>)

\* the working trees a run may start in: each target present or absent,
\* each directory present only with its parent, each file only in its
\* directory; the files named by --config / --hook-script present or not
InitialFs(a) ==
    { [files |-> (ProjectFile :> <<"# project">>)
                 @@ Opt(hk # <<>>, HookCwdPath, hk)
                 @@ Opt(reuse = 3, TemplatePath(a.template), CwdTemplateText)
                 @@ Opt(lic = 2, LicensePath(a.license), CwdLicenseText)
                 @@ Opt(lc, LocalConfigPath, LocalConfigText)
                 @@ Opt(lh, LocalHookPath, LocalHookText),
       dirs |-> {<<"ci">>}
                \cup (IF reuse >= 1 THEN {<<".reuse">>} ELSE {})
                \cup (IF reuse >= 2 THEN {<<".reuse", "templates">>} ELSE {})
                \cup (IF lic >= 1 THEN {<<"LICENSES">>} ELSE {})] :
      hk \in {<<>>} \cup CwdHookTexts,
      reuse \in 0..3,
      lic \in 0..2,
      lc \in {b \in BOOLEAN : b => a.config = LocalConfigPath},
      lh \in {b \in BOOLEAN : b => a.hook_script = LocalHookPath} }

ArgValues ==
    { [branch |-> "main",
       copyright |-> OrDefault(c, DEFAULT_COPYRIGHT),
       license |-> OrDefault(l, DEFAULT_LICENSE),
       template |-> OrDefault(t, DEFAULT_TEMPLATE),
       config |-> cfg,
       hook_script |-> hs,
       no_fix |-> nf] :
      c \in {"", "ACME Corp"},
      l \in {"", "MIT"},
      t \in {"", "custom"},
      cfg \in {None, CurDir, LocalConfigPath},
      hs \in {None, CurDir, LocalHookPath},
      nf \in BOOLEAN }

PatchOff == p_in = <<>> /\ p_out = <<>> /\ p_pc = "off"

\* main() up to line 183
Init ==
    /\ args \in ArgValues
    /\ fs \in InitialFs(args)
    /\ pre = fs
    /\ cleanup_list = <<>>
    /\ config_path = args.config
    /\ config_is_temp = FALSE
    /\ hook_existed_in_cwd = FALSE
    /\ result = 0
    /\ pc = "config"
    /\ exit_code = -1
    /\ outcome = [a \in Artifacts |-> "pending"]
    /\ events = <<>>
    /\ tool_config = None
    /\ created = {}
    /\ PatchOff

---------------------------------------------------------------------------
(* main(), lines 185-291, one action per step between blocking calls *)

\* paths a step of the run itself brought into existence
Made(f, g) == Paths(g) \ Paths(f)

\* sys.exit(n): the status the parent process sees
SysExit(n) == n % 256

\* lines 189-200: no --config, fetch the remote config into a temporary file.
\* NamedTemporaryFile creates the file before urlopen is called.
ResolveConfigRemote ==
    /\ pc = "config"
    /\ config_path = None
    /\ \E status \in NetStatus :
         LET f1 == WriteText(fs, TmpConfigPath, <<>>)
         IN  IF status = "ok"
             THEN /\ fs' = WriteText(f1, TmpConfigPath,
                                     patch_config(RemoteConfigText, ~args.no_fix))
                  /\ config_path' = TmpConfigPath
                  /\ config_is_temp' = TRUE
                  /\ outcome' = [outcome EXCEPT !.config = "fetched"]
                  /\ pc' = "hook"
             ELSE /\ fs' = f1
                  /\ UNCHANGED <<config_path, config_is_temp>>
                  /\ outcome' = [outcome EXCEPT !.config = status]
                  /\ pc' = IF status = "http_error" THEN "except_http"
                                                    ELSE "except_exc"
    /\ created' = created \cup Made(fs, fs')
    /\ UNCHANGED <<args, pre, cleanup_list, hook_existed_in_cwd, result,
                   exit_code, events, tool_config, patchvars>>

\* faulty variant: a local config is handed to the tool as it is
ResolveConfigLocalNoCopy ==
    /\ pc = "config"
    /\ config_path # None
    /\ IF IsFile(fs, config_path)
       THEN /\ outcome' = [outcome EXCEPT !.config = "local"]
            /\ pc' = "hook"
       ELSE /\ outcome' = [outcome EXCEPT !.config = "read_error"]
            /\ pc' = "except_exc"
    /\ UNCHANGED <<args, fs, pre, cleanup_list, config_path, config_is_temp,
                   hook_existed_in_cwd, result, exit_code, events,
                   tool_config, created, patchvars>>

\* lines 201-210: --config given, patch a temporary copy of it
ResolveConfigLocal ==
    /\ pc = "config"
    /\ config_path # None
    /\ IF IsFile(fs, config_path)
       THEN /\ fs' = WriteText(fs, TmpConfigPath,
                               patch_config(fs.files[config_path], ~args.no_fix))
            /\ config_path' = TmpConfigPath
            /\ config_is_temp' = TRUE
            /\ outcome' = [outcome EXCEPT !.config = "local"]
            /\ pc' = "hook"
       ELSE /\ UNCHANGED <<fs, config_path, config_is_temp>>
            /\ outcome' = [outcome EXCEPT !.config = "read_error"]
            /\ pc' = "except_exc"
    /\ created' = created \cup Made(fs, fs')
    /\ UNCHANGED <<args, pre, cleanup_list, hook_existed_in_cwd, result,
                   exit_code, events, tool_config, patchvars>>

\* lines 215-242: resolve, patch and write the hook script
ResolveHook ==
    /\ pc = "hook"
    /\ \E status \in NetStatus :
         LET existed == Exists(fs, HookCwdPath)
             how == IF Truthy(args.hook_script)
                    THEN (IF IsFile(fs, args.hook_script) THEN "local"
                                                          ELSE "read_error")
                    ELSE IF existed THEN "cwd"
                    ELSE IF status = "ok" THEN "fetched" ELSE status
             script_content ==
                 CASE how = "local" -> fs.files[args.hook_script]
                   [] how = "cwd" -> fs.files[HookCwdPath]
                   [] OTHER -> RemoteHookText
             patched == patch_hook_script(script_content, <<args.copyright>>,
                                          <<args.license>>, <<args.template>>)
         IN  /\ hook_existed_in_cwd' = existed
             /\ outcome' = [outcome EXCEPT !.hook = how]
             /\ IF how \in {"local", "cwd", "fetched"}
                THEN /\ fs' = WriteText(fs, HookCwdPath, patched)
                     /\ cleanup_list' =
                            IF ~existed
                            THEN Append(cleanup_list,
                                        [file |-> HookCwdPath, dirs |-> <<>>])
                            ELSE cleanup_list
                     /\ pc' = "template"
                ELSE /\ UNCHANGED <<fs, cleanup_list>>
                     /\ pc' = IF how = "http_error" THEN "except_http"
                                                    ELSE "except_exc"
    /\ created' = created \cup Made(fs, fs')
    /\ UNCHANGED <<args, pre, config_path, config_is_temp, result, exit_code,
                   events, tool_config, patchvars>>

\* lines 245-254
DownloadTemplate ==
    /\ pc = "template"
    /\ \E status \in NetStatus :
         LET r == download_if_missing(fs, TemplatePath(args.template), status,
                                      RemoteTemplateText)
         IN  /\ fs' = r.fs
             /\ outcome' = [outcome EXCEPT !.template = r.how]
             /\ IF r.how = "url_error"
                THEN /\ UNCHANGED cleanup_list
                     /\ pc' = "except_exc"
                ELSE /\ cleanup_list' = Append(cleanup_list, r.ret)
                     /\ pc' = "license"
    /\ created' = created \cup Made(fs, fs')
    /\ UNCHANGED <<args, pre, config_path, config_is_temp,
                   hook_existed_in_cwd, result, exit_code, events,
                   tool_config, patchvars>>

\* lines 256-263
DownloadLicense ==
    /\ pc = "license"
    /\ \E status \in NetStatus :
         LET r == download_if_missing(fs, LicensePath(args.license), status,
                                      RemoteLicenseText)
         IN  /\ fs' = r.fs
             /\ outcome' = [outcome EXCEPT !.license = r.how]
             /\ IF r.how = "url_error"
                THEN /\ UNCHANGED cleanup_list
                     /\ pc' = "except_exc"
                ELSE /\ cleanup_list' = Append(cleanup_list, r.ret)
                     /\ pc' = "tool"
    /\ created' = created \cup Made(fs, fs')
    /\ UNCHANGED <<args, pre, config_path, config_is_temp,
                   hook_existed_in_cwd, result, exit_code, events,
                   tool_config, patchvars>>

\* what pre-commit may leave behind: nothing, or a file of its own in one
\* of the directories of the working tree
ToolLeaves(f) ==
    {f} \cup { WriteText(f, d \o <<"leftover">>, <<"tool output">>) :
               d \in f.dirs \ {<<"ci">>} }

\* faulty variant: subprocess.run(..., check=True)
RunToolChecked ==
    /\ pc = "tool"
    /\ \/ /\ pc' = "except_exc"
          /\ events' = Append(events, "tool_not_started")
          /\ UNCHANGED <<fs, result, tool_config>>
       \/ \E rc \in ReturnCodes, f \in ToolLeaves(fs) :
            /\ fs' = f
            /\ result' = rc
            /\ tool_config' = config_path
            /\ events' = events \o <<"tool_invoked", "tool_returned">>
            /\ pc' = IF rc = 0 THEN "cleanup" ELSE "except_exc"
    /\ UNCHANGED <<args, pre, cleanup_list, config_path, config_is_temp,
                   hook_existed_in_cwd, exit_code, outcome, created,
                   patchvars>>

\* lines 265-269: subprocess.run(["pre-commit", ...], check=False); either
\* the executable cannot be started (an OSError) or it runs and returns
RunTool ==
    /\ pc = "tool"
    /\ \/ /\ pc' = "except_exc"
          /\ events' = Append(events, "tool_not_started")
          /\ UNCHANGED <<fs, result, tool_config>>
       \/ \E rc \in ReturnCodes, f \in ToolLeaves(fs) :
            /\ fs' = f
            /\ result' = rc
            /\ tool_config' = config_path
            /\ events' = events \o <<"tool_invoked", "tool_returned">>
            /\ pc' = "cleanup"
    /\ UNCHANGED <<args, pre, cleanup_list, config_path, config_is_temp,
                   hook_existed_in_cwd, exit_code, outcome, created,
                   patchvars>>

\* the cleanup all three exits share; guard is the test made before unlink
CleanupAndExit(guard, code) ==
    /\ fs' = cleanup_downloads(IF guard THEN Unlink(fs, config_path) ELSE fs,
                               cleanup_list)
    /\ events' = events \o (IF guard THEN <<"unlink_config">> ELSE <<>>)
                        \o <<"cleanup_downloads">>
    /\ exit_code' = SysExit(code)
    /\ pc' = "exit"
    /\ UNCHANGED <<args, pre, cleanup_list, config_path, config_is_temp,
                   hook_existed_in_cwd, result, outcome, tool_config,
                   created, patchvars>>

\* lines 271-275
Finish ==
    /\ pc = "cleanup"
    /\ CleanupAndExit(config_is_temp, result)

\* lines 276-285
ExceptHTTPError ==
    /\ pc = "except_http"
    /\ CleanupAndExit(config_is_temp /\ Truthy(config_path), 1)

\* lines 286-291
ExceptException ==
    /\ pc = "except_exc"
    /\ CleanupAndExit(config_is_temp /\ Truthy(config_path), 1)

Next ==
    \/ ResolveConfigRemote
    \/ ResolveConfigLocal
    \/ ResolveHook
    \/ DownloadTemplate
    \/ DownloadLicense
    \/ RunTool
    \/ Finish
    \/ ExceptHTTPError
    \/ ExceptException

Spec == Init /\ [][Next]_vars

---------------------------------------------------------------------------
(* patch_hook_script on its own: every script text up to MaxLen chunks *)

Chunks ==
    {"$", CopyrightToken[2], "{REUSE_LICENSE:-", "Apache-2.0}",
     "{REUSE_TEMPLATE:-", "opensovd}", "echo "}

RECURSIVE Texts(_)
\* all texts of at most n chunks
Texts(n) ==
    IF n = 0 THEN {<<>>}
    ELSE LET shorter == Texts(n - 1)
         IN  shorter \cup {Append(t, c) : t \in shorter, c \in Chunks}

CopyrightValues == {<<"ACME Corp">>, <<"Apache-2.0}">>, <<"$">>, LicenseToken}
LicenseValues == {<<"MIT">>, TemplateToken}
TemplateValues == {<<"custom">>, <<DEFAULT_TEMPLATE>>}

InitPatch ==
    /\ args = [branch |-> "main", copyright |-> DEFAULT_COPYRIGHT,
               license |-> DEFAULT_LICENSE, template |-> DEFAULT_TEMPLATE,
               config |-> None, hook_script |-> None, no_fix |-> FALSE]
    /\ fs = [files |-> (ProjectFile :> <<"# project">>), dirs |-> {}]
    /\ pre = fs
    /\ cleanup_list = <<>>
    /\ config_path = None
    /\ config_is_temp = FALSE
    /\ hook_existed_in_cwd = FALSE
    /\ result = 0
    /\ pc = "off"
    /\ exit_code = -1
    /\ outcome = [a \in Artifacts |-> "pending"]
    /\ events = <<>>
    /\ tool_config = None
    /\ created = {}
    /\ p_in \in [script_content : Texts(MaxLen),
                 copyright_text : CopyrightValues,
                 license_id : LicenseValues,
                 template : TemplateValues]
    /\ p_out = <<>>
    /\ p_pc = "call"

\* one call of patch_hook_script, lines 60-78
PatchCall ==
    /\ p_pc = "call"
    /\ p_out' = patch_hook_script(p_in.script_content, p_in.copyright_text,
                                  p_in.license_id, p_in.template)
    /\ p_pc' = "done"
    /\ UNCHANGED <<p_in, mainvars>>

SpecPatch == InitPatch /\ [][PatchCall]_vars

---------------------------------------------------------------------------
(* Vocabulary of the properties *)

Exited == pc = "exit"
Has(e) == \E i \in 1..Len(events) : events[i] = e
Index(e) == CHOOSE i \in 1..Len(events) : events[i] = e
NetworkOutcomes == {"fetched", "http_error", "url_error"}
FetchFailures == {"http_error", "url_error"}
RecordsFor(p) == {i \in 1..Len(cleanup_list) : cleanup_list[i].file = p}
Ancestors(p) == {SubSeq(p, 1, n) : n \in 1..(Len(p) - 1)}
TemplateTarget == TemplatePath(args.template)
LicenseTarget == LicensePath(args.license)
Targets == {HookCwdPath, TemplateTarget, LicenseTarget}
\* files pre-commit left in directories that the run created
LeftoverInCreated ==
    {q \in DOMAIN fs.files : q \notin DOMAIN pre.files /\ q \notin created
                             /\ Parent(q) \in created}

---------------------------------------------------------------------------
(* C1 *)

\* C1: when the remote fetch of the config fails with an HTTP error and no
\* --config was given, the process exits with 1 and nothing the run created
\* is left on disk, the temporary .yml file included.
C1_NothingRemainsAfterConfigHTTPError ==
    (Exited /\ args.config = None /\ outcome.config = "http_error")
        => (exit_code = 1 /\ created \cap Paths(fs) = {})

---------------------------------------------------------------------------
(* C2 *)

\* C2: a target that exists before the run gets no cleanup record and has,
\* at exit, the content it had before the run.
C2_ExistingTargetsUntouched ==
    Exited =>
        \A t \in Targets :
            IsFile(pre, t) =>
                /\ RecordsFor(t) = {}
                /\ IsFile(fs, t)
                /\ fs.files[t] = pre.files[t]

---------------------------------------------------------------------------
(* C3 *)

\* C3: every entry of cleanup_list names a file and directories that did
\* not exist before the run and that the run created, and nothing that
\* existed before the run is ever deleted or removed.
C3_RecordsOnlyOwnPaths ==
    /\ \A i \in 1..Len(cleanup_list) :
           LET info == cleanup_list[i]
           IN  info # NoneInfo =>
                   /\ ~Exists(pre, info.file)
                   /\ info.file \in created
                   /\ \A k \in 1..Len(info.dirs) :
                          /\ ~Exists(pre, info.dirs[k])
                          /\ info.dirs[k] \in created
    /\ Paths(pre) \subseteq Paths(fs)

C3_Witness ==
    /\ Exited
    /\ Has("cleanup_downloads")
    /\ IsFile(pre, HookCwdPath)
    /\ <<"LICENSES">> \in pre.dirs
    /\ \E i \in 1..Len(cleanup_list) : Len(cleanup_list[i].dirs) = 2
    /\ RecordsFor(LicenseTarget) # {}
    /\ ~Exists(fs, TemplateTarget)

---------------------------------------------------------------------------
(* C4 *)

---------------------------------------------------------------------------
(* C5 *)

\* C5: a failed fetch of the template or of the license text, HTTP error or
\* other network failure, never aborts the run: pre-commit is still started
\* and the exit code is its return code.
C5_AuxiliaryFailureNeverAborts ==
    (/\ Exited
     /\ outcome.template \in FetchFailures \/ outcome.license \in FetchFailures
     /\ ~Has("tool_not_started"))
        => (Has("tool_invoked") /\ exit_code = result)

---------------------------------------------------------------------------
(* C6 *)

\* C6: on every path to exit the cleanup step has run: the temporary config
\* the run created has been deleted, then cleanup_downloads was called, and
\* both only after pre-commit returned if it was started.
C6_CleanupBeforeEveryExit ==
    Exited =>
        /\ Has("cleanup_downloads")
        /\ TmpConfigPath \in created =>
               (Has("unlink_config")
                /\ Index("unlink_config") < Index("cleanup_downloads"))
        /\ Has("tool_invoked") =>
               (Has("tool_returned")
                /\ Index("tool_returned") < Index("cleanup_downloads"))

---------------------------------------------------------------------------
(* C7 *)

C7_Case ==
    /\ Exited
    /\ args.config = None
    /\ ~Truthy(args.hook_script)
    /\ \A t \in Targets : ~Exists(pre, t)
    /\ \A a \in Artifacts : outcome[a] = "fetched"
    /\ Has("tool_returned")
    /\ LeftoverInCreated = {}

\* C7: no overrides, no target in the working directory, four successful
\* fetches, directories left empty by the tool: after the run the temporary
\* config, the three targets and every directory the run made are gone.
C7_EverythingRemoved ==
    C7_Case =>
        /\ ~Exists(fs, TmpConfigPath)
        /\ \A t \in Targets : ~Exists(fs, t)
        /\ \A t \in Targets : \A d \in Ancestors(t) :
               d \notin pre.dirs => d \notin fs.dirs
        /\ created \cap Paths(fs) = {}

C7_Witness ==
    /\ C7_Case
    /\ pre.dirs = {<<"ci">>}
    /\ {<<".reuse">>, <<".reuse", "templates">>, <<"LICENSES">>} \subseteq created
    /\ result = 1
    /\ fs = pre

---------------------------------------------------------------------------
(* C8 *)

RECURSIVE ReplaceEvery(_, _, _, _)
\* the text with each occurrence of a token replaced by its value, in one
\* pass: the rest of the text and the inserted values are left as they are
ReplaceEvery(s, c, l, t) ==
    IF s = <<>> THEN <<>>
    ELSE IF IsPrefix(CopyrightToken, s)
         THEN c \o ReplaceEvery(SubSeq(s, Len(CopyrightToken) + 1, Len(s)), c, l, t)
    ELSE IF IsPrefix(LicenseToken, s)
         THEN l \o ReplaceEvery(SubSeq(s, Len(LicenseToken) + 1, Len(s)), c, l, t)
    ELSE IF IsPrefix(TemplateToken, s)
         THEN t \o ReplaceEvery(SubSeq(s, Len(TemplateToken) + 1, Len(s)), c, l, t)
    ELSE <<Head(s)>> \o ReplaceEvery(Tail(s), c, l, t)

Expected ==
    ReplaceEvery(p_in.script_content, p_in.copyright_text, p_in.license_id,
                 p_in.template)

\* "$" is the only chunk that contains a dollar sign
HasDollar(text) == \E i \in 1..Len(text) : text[i] = "$"

\* every "$" of the text starts one of the three tokens
DollarsStartTokens(text) ==
    \A i \in 1..Len(text) :
        text[i] = "$" =>
            LET rest == SubSeq(text, i, Len(text))
            IN  \/ IsPrefix(CopyrightToken, rest)
                \/ IsPrefix(LicenseToken, rest)
                \/ IsPrefix(TemplateToken, rest)

\* C8 as stated: for every script and every triple, values that contain a
\* token included, the result is the one-pass replacement of the tokens.
C8_EveryTripleOnePass == p_pc = "done" => p_out = Expected

\* C8 amended: when no value contains "$" and every "$" of the script
\* starts a token, the result is the one-pass replacement.
C8_CleanInputsOnePass ==
    (/\ p_pc = "done"
     /\ ~HasDollar(p_in.copyright_text)
     /\ ~HasDollar(p_in.license_id)
     /\ ~HasDollar(p_in.template)
     /\ DollarsStartTokens(p_in.script_content))
        => p_out = Expected

C8_Witness ==
    /\ p_pc = "done"
    /\ p_in.script_content = <<"echo ">> \o LicenseToken
    /\ p_in.copyright_text = <<"ACME Corp">>
    /\ p_in.license_id = <<"MIT">>
    /\ p_out = <<"echo ", "MIT">>

---------------------------------------------------------------------------
(* C9 *)

NoLocalSource(a) ==
    CASE a = "config" -> args.config = None
      [] a = "hook" -> ~Truthy(args.hook_script) /\ ~Exists(pre, HookCwdPath)
      [] a = "template" -> ~Exists(pre, TemplateTarget)
      [] OTHER -> ~Exists(pre, LicenseTarget)

C9_Case ==
    /\ args.config = LocalConfigPath /\ IsFile(pre, LocalConfigPath)
    /\ args.hook_script = LocalHookPath /\ IsFile(pre, LocalHookPath)
    /\ IsFile(pre, TemplateTarget)
    /\ IsFile(pre, LicenseTarget)

\* C9: an artifact is fetched only when it has no local source; with
\* --config and --hook-script naming files and both auxiliary files in
\* place nothing is fetched, and pre-commit is started with the temporary
\* patched copy of the config, not with the --config path.
C9_FetchOnlyWithoutLocalSource ==
    /\ \A a \in Artifacts : outcome[a] \in NetworkOutcomes => NoLocalSource(a)
    /\ C9_Case =>
           /\ \A a \in Artifacts : outcome[a] \notin NetworkOutcomes
           /\ pc \notin {"except_http"}
           /\ (Exited /\ ~Has("tool_not_started")) =>
                  /\ Has("tool_invoked")
                  /\ tool_config = TmpConfigPath
                  /\ tool_config # args.config

C9_Witness ==
    /\ C9_Case
    /\ Exited
    /\ Has("tool_invoked")
    /\ tool_config = TmpConfigPath
    /\ \A a \in Artifacts : outcome[a] \in {"local", "cwd"}

---------------------------------------------------------------------------
(* C10 *)

\* C10: when the fetch of the template or of the license text fails, at
\* exit its target file does not exist and every directory made to hold it
\* has been removed again.
C10_NothingLeftOfFailedAuxiliary ==
    Exited =>
        /\ outcome.template \in FetchFailures =>
               /\ ~Exists(fs, TemplateTarget)
               /\ \A d \in Ancestors(TemplateTarget) :
                      d \notin pre.dirs => d \notin fs.dirs
        /\ outcome.license \in FetchFailures =>
               /\ ~Exists(fs, LicenseTarget)
               /\ \A d \in Ancestors(LicenseTarget) :
                      d \notin pre.dirs => d \notin fs.dirs

====
